---------------------------- MODULE Spec2Model ----------------------------
(* A model of make-prc-key (dtool/src/prckeys/makePrcKey.cxx): the command *)
(* surface of main(), the key-generation loop, the two emitters and the    *)
(* C string-literal serializer output_c_string().                          *)
(*                                                                         *)
(* Text is a sequence of one-character strings; a byte is a number 0..255. *)
(* The command line is read as the program reads it: getopt() hands main   *)
(* one option per call, and the positional arguments are read one per      *)
(* iteration of the key-list loop.                                         *)
EXTENDS Integers, Sequences, FiniteSets, TLC

(***************************************************************************)
(* Bounds of the model.                                                    *)
(***************************************************************************)
\* How many positional (trust level) arguments a command line holds at most.
MaxArgs == 3
\* Length of the byte sequences handed to output_c_string.
MaxData == 2
\* The trust levels whose private paths are compared with one another.
MaxLevel == 12

(***************************************************************************)
(* Text helpers.                                                           *)
(***************************************************************************)
Digits == <<"0", "1", "2", "3", "4", "5", "6", "7", "8", "9">>
HexDigits == <<"0", "1", "2", "3", "4", "5", "6", "7", "8", "9",
               "a", "b", "c", "d", "e", "f">>

\* The index of the first occurrence of character c in s, 0 when there is
\* none (std::string::find returning npos).
RECURSIVE FindFrom(_, _, _)
FindFrom(s, c, i) ==
  IF i > Len(s) THEN 0
  ELSE IF s[i] = c THEN i
  ELSE FindFrom(s, c, i + 1)

Find(s, c) == FindFrom(s, c, 1)

\* The index of the last occurrence of character c in s, 0 when none.
RECURSIVE RFindFrom(_, _, _)
RFindFrom(s, c, i) ==
  IF i < 1 THEN 0
  ELSE IF s[i] = c THEN i
  ELSE RFindFrom(s, c, i - 1)

RFind(s, c) == RFindFrom(s, c, Len(s))

\* operator << (int) on a stream in the classic locale: decimal digits,
\* a leading '-' for a negative number.  Works on the non-positive side so
\* that INT_MIN needs no negation.
RECURSIVE FormatNonPos(_)
FormatNonPos(m) ==
  LET d == (10 - (m % 10)) % 10
      q == (m + d) \div 10
  IN  IF q = 0 THEN <<Digits[d + 1]>>
      ELSE FormatNonPos(q) \o <<Digits[d + 1]>>

FormatInt(n) ==
  IF n < 0 THEN <<"-">> \o FormatNonPos(n) ELSE FormatNonPos(0 - n)

(***************************************************************************)
(* strtol(nptr, &endptr, 0) followed by the cast to int (main, line 410).  *)
(* long is 64 bits wide (LP64) and the cast keeps the low 32 bits; the     *)
(* arguments of the model are shorter than the 19 digits at which strtol   *)
(* would clamp to LONG_MAX, so only the low 32 bits are accumulated, as    *)
(* two 16-bit halves.                                                      *)
(***************************************************************************)
\* isspace() in the C locale (the vertical tab has no TLA+ escape).
IsSpace(c) == c \in {" ", "\t", "\n", "\f", "\r"}

UpperHex == <<"A", "B", "C", "D", "E", "F">>

\* The value of c as a digit, -1 when c is no digit of any base up to 16.
DigitVal(c) ==
  IF Find(HexDigits, c) # 0 THEN Find(HexDigits, c) - 1
  ELSE IF Find(UpperHex, c) # 0 THEN Find(UpperHex, c) + 9
  ELSE 0 - 1

IsDigitOf(c, base) == DigitVal(c) >= 0 /\ DigitVal(c) < base

RECURSIVE SkipSpace(_, _)
SkipSpace(s, i) ==
  IF i <= Len(s) /\ IsSpace(s[i]) THEN SkipSpace(s, i + 1) ELSE i

\* Accumulates the digits of `base` from position i on: the low 32 bits of
\* the value as the halves hi and lo, and the position after the last digit.
RECURSIVE Accumulate(_, _, _, _, _)
Accumulate(s, i, base, hi, lo) ==
  IF i <= Len(s) /\ IsDigitOf(s[i], base)
  THEN LET l == lo * base + DigitVal(s[i])
           h == hi * base + (l \div 65536)
       IN  Accumulate(s, i + 1, base, h % 65536, l % 65536)
  ELSE [hi |-> hi, lo |-> lo, end |-> i]

\* The 32-bit two's complement negation of the halves (hi, lo).
NegateHalves(w) ==
  [hi |-> (65535 - w.hi + (IF w.lo = 0 THEN 1 ELSE 0)) % 65536,
   lo |-> (65536 - w.lo) % 65536,
   end |-> w.end]

\* (int) of the low 32 bits (hi, lo): two's complement.
ToInt(w) ==
  IF w.hi >= 32768 THEN (w.hi - 65536) * 65536 + w.lo
  ELSE w.hi * 65536 + w.lo

\* [number |-> (int)strtol(s, &endptr, 0), end |-> the index endptr points
\* at], Len(s) + 1 standing for the terminating NUL.
Strtol(s) ==
  LET i0 == SkipSpace(s, 1)
      neg == i0 <= Len(s) /\ s[i0] = "-"
      i1 == IF i0 <= Len(s) /\ s[i0] \in {"-", "+"} THEN i0 + 1 ELSE i0
      hex == /\ i1 + 2 <= Len(s)
             /\ s[i1] = "0"
             /\ s[i1 + 1] \in {"x", "X"}
             /\ IsDigitOf(s[i1 + 2], 16)
      base == IF hex THEN 16
              ELSE IF i1 <= Len(s) /\ s[i1] = "0" THEN 8
              ELSE 10
      start == IF hex THEN i1 + 2 ELSE i1
      w == Accumulate(s, start, base, 0, 0)
  IN  IF w.end = start
      THEN [number |-> 0, end |-> 1]
      ELSE [number |-> ToInt(IF neg THEN NegateHalves(w) ELSE w),
            end |-> w.end]

(***************************************************************************)
(* Filename (dtool/src/dtoolutil/filename.h), as far as main uses it.      *)
(***************************************************************************)
\* The index of the dot that starts the extension: the last dot of the
\* basename, 0 when the basename has none.
ExtensionDot(f) ==
  LET slash == RFind(f, "/")
      dot == RFind(f, ".")
  IN  IF dot > slash THEN dot ELSE 0

get_extension(f) ==
  IF ExtensionDot(f) = 0 THEN <<>>
  ELSE SubSeq(f, ExtensionDot(f) + 1, Len(f))

get_fullpath_wo_extension(f) ==
  IF ExtensionDot(f) = 0 THEN f
  ELSE SubSeq(f, 1, ExtensionDot(f) - 1)

get_basename_wo_extension(f) ==
  LET g == get_fullpath_wo_extension(f)
  IN  SubSeq(g, RFind(f, "/") + 1, Len(g))


(***************************************************************************)
(* output_c_string.  The emitted text is a sequence of character codes.    *)
(***************************************************************************)
\* The bytes a memory BIO of the model holds: NUL, tab, newline, the double
\* quote, '0', 'A', 'G', the backslash, 'n', 'x', DEL and two high-bit bytes.
Bytes == {0, 9, 10, 34, 48, 65, 71, 92, 110, 120, 127, 128, 255}

\* The codes of the characters of "0123456789abcdef".
HexCodes == <<48, 49, 50, 51, 52, 53, 54, 55, 56, 57,
              97, 98, 99, 100, 101, 102>>

\* isprint() in the C locale.  data_ptr[i] is a plain char: where char is
\* signed a high-bit byte is a negative argument, for which isprint is
\* undefined; `high` is the answer the build gives for such a byte.
isprint(b, high) == IF b >= 128 THEN high ELSE b >= 32 /\ b <= 126

\* What the loop body writes for byte b (lines 86-105), without the line
\* break that last_nl inserts.
EscapeByte(b, high) ==
  IF b = 10 THEN <<92, 110>>
  ELSE IF b = 9 THEN <<92, 116>>
  ELSE IF isprint(b, high) THEN <<b>>
  ELSE <<92, 120, HexCodes[(b \div 16) + 1], HexCodes[(b % 16) + 1]>>

\* The loop of lines 84-107 from byte i on; high[i] is isprint's answer for
\* byte i when that byte is out of isprint's domain.
RECURSIVE EscapeFrom(_, _, _, _)
EscapeFrom(data, high, i, last_nl) ==
  IF i > Len(data) THEN <<>>
  ELSE IF data[i] = 10
       THEN EscapeByte(10, high[i]) \o EscapeFrom(data, high, i + 1, TRUE)
       ELSE (IF last_nl THEN <<34, 10, 32, 32, 34>> ELSE <<>>)
            \o EscapeByte(data[i], high[i])
            \o EscapeFrom(data, high, i + 1, FALSE)

\* output_c_string(out, string_name, index, mbio): the string literal (from
\* its opening to its closing quote) and the value of the _length constant.
output_c_string(string_name, index, data, high) ==
  [name |-> string_name,
   index |-> index,
   literal |-> <<34>> \o EscapeFrom(data, high, 1, FALSE) \o <<34>>,
   length |-> Len(data)]

(***************************************************************************)
(* A C compiler's reading of a string literal: adjacent quoted segments    *)
(* are joined and the escape sequences undone.  <<-1>> when the text is no *)
(* well-formed literal.                                                    *)
(***************************************************************************)
Malformed == <<0 - 1>>

CodeDigit(c) ==
  IF c >= 48 /\ c <= 57 THEN c - 48
  ELSE IF c >= 97 /\ c <= 102 THEN c - 87
  ELSE IF c >= 65 /\ c <= 70 THEN c - 55
  ELSE 0 - 1

\* A hexadecimal escape takes every hexadecimal digit that follows it.
RECURSIVE HexRun(_, _, _)
HexRun(t, i, v) ==
  IF i <= Len(t) /\ CodeDigit(t[i]) >= 0 /\ v < 4096
  THEN HexRun(t, i + 1, v * 16 + CodeDigit(t[i]))
  ELSE [value |-> v, end |-> i]

\* An octal escape takes up to three octal digits.
RECURSIVE OctRun(_, _, _, _)
OctRun(t, i, v, left) ==
  IF left > 0 /\ i <= Len(t) /\ t[i] >= 48 /\ t[i] <= 55
  THEN OctRun(t, i + 1, v * 8 + (t[i] - 48), left - 1)
  ELSE [value |-> v, end |-> i]

\* The simple escapes: \' \" \? \\ \a \b \f \n \r \t \v.
SimpleEscape(c) ==
  CASE c = 39 -> 39 [] c = 34 -> 34 [] c = 63 -> 63 [] c = 92 -> 92
    [] c = 97 -> 7 [] c = 98 -> 8 [] c = 102 -> 12 [] c = 110 -> 10
    [] c = 114 -> 13 [] c = 116 -> 9 [] c = 118 -> 11
    [] OTHER -> 0 - 1

RECURSIVE ReadLiteralFrom(_, _, _, _)
ReadLiteralFrom(t, i, in_string, acc) ==
  IF i > Len(t) THEN (IF in_string THEN Malformed ELSE acc)
  ELSE IF ~in_string
  THEN IF t[i] = 34 THEN ReadLiteralFrom(t, i + 1, TRUE, acc)
       ELSE IF t[i] \in {10, 32} THEN ReadLiteralFrom(t, i + 1, FALSE, acc)
       ELSE Malformed
  ELSE IF t[i] = 34 THEN ReadLiteralFrom(t, i + 1, FALSE, acc)
  ELSE IF t[i] = 10 THEN Malformed
  ELSE IF t[i] # 92 THEN ReadLiteralFrom(t, i + 1, TRUE, Append(acc, t[i]))
  ELSE IF i + 1 > Len(t) THEN Malformed
  ELSE IF t[i + 1] = 120
  THEN LET h == HexRun(t, i + 2, 0)
       IN  IF h.end = i + 2 \/ h.value > 255 THEN Malformed
           ELSE ReadLiteralFrom(t, h.end, TRUE, Append(acc, h.value))
  ELSE IF t[i + 1] >= 48 /\ t[i + 1] <= 55
  THEN LET o == OctRun(t, i + 1, 0, 3)
       IN  IF o.value > 255 THEN Malformed
           ELSE ReadLiteralFrom(t, o.end, TRUE, Append(acc, o.value))
  ELSE IF SimpleEscape(t[i + 1]) < 0 THEN Malformed
  ELSE ReadLiteralFrom(t, i + 2, TRUE, Append(acc, SimpleEscape(t[i + 1])))

ReadLiteral(t) == ReadLiteralFrom(t, 1, FALSE, <<>>)


(***************************************************************************)
(* The inputs of a run.                                                    *)
(***************************************************************************)
cxx == <<"c", "x", "x">>

\* Arguments of -a: a path that is also the private path of level 1 under
\* the template k#.cxx, a path of its own, and one without .cxx.
PubArgs == {<<"k", "1", ".", "c", "x", "x">>,
            <<"p", "u", "b", ".", "c", "x", "x">>,
            <<"p", ".", "t", "x", "t">>}

\* Arguments of -b: with the hash mark, without it, and one without .cxx.
PrivArgs == {<<"k", "#", ".", "c", "x", "x">>,
             <<"k", ".", "c", "x", "x">>,
             <<"k", "#", ".", "c">>}

\* Arguments of -p: the empty phrase and a phrase.
PhraseArgs == {<<>>, <<"s">>}

\* Positional arguments.
Tokens == {<<"1">>, <<"1", ",">>, <<"2", ",", "s">>, <<"0", "x", "3">>,
           <<"0">>, <<"-", "1">>, <<"x">>, <<"1", "x">>, <<>>,
           <<",", "s">>, <<"0", ",", "s">>, <<"0", "8">>,
           <<"2", "1", "4", "7", "4", "8", "3", "6", "4", "8">>}

\* What time(nullptr) may return.
Times == {7, 8}

\* A registry slot with no key, and the key table a build with
\* PRC_PUBLIC_KEYS_INCLUDE compiles in: level 2 alone, generated at time 5.
Absent == [pkey |-> 0, generated_time |-> 0]
CompiledKeys == <<Absent, Absent, [pkey |-> 102, generated_time |-> 5]>>
\* PRC_PUBLIC_KEYS_FILENAME of such a build.
CompiledFilename == <<"d", "e", "f", ".", "c", "x", "x">>

(***************************************************************************)
(* The state of a run.                                                     *)
(***************************************************************************)
VARIABLES
  pc,           \* where main is
  build,        \* TRUE when the build defines PRC_PUBLIC_KEYS_INCLUDE
  flag,         \* getopt's last answer
  opt,          \* pub_outfile, priv_outfile, pass_phrase and their got_ flags
  argc,         \* argc after line 367: 1 + the positional arguments
  argv,         \* the positional arguments read so far, argv[1..]
  key_numbers,  \* the KeyNumbers vector
  now,          \* time_t now
  tmpl,         \* prefix, suffix, got_hash
  ki,           \* the loop iterator, as an index into key_numbers
  pkey,         \* the key generate_key() returned for this iteration
  outfile,      \* the file being written
  registry,     \* PrcKeyRegistry: slot i is registry[i + 1]
  disk,         \* the files on disk: path -> content
  log,          \* the calls that generate, record and write, in order: k
                \* is the request (0 for the public table), n its level
  status,       \* the process's exit status, -1 while it runs
  err,          \* the last message written to cerr
  data,         \* the bytes in the memory BIO handed to output_c_string
  emitted       \* what output_c_string wrote for them

vars == <<pc, build, flag, opt, argc, argv, key_numbers, now, tmpl,
          ki, pkey, outfile, registry, disk, log, status, err, data, emitted>>

NoOutput == [name |-> "", index |-> 0, literal |-> <<>>, length |-> 0]
NoError == [kind |-> "none", text |-> <<>>]

MainInit ==
  /\ build \in BOOLEAN
  /\ flag = "none"
  /\ opt = [pub_outfile |-> <<>>, got_pub_outfile |-> FALSE,
            priv_outfile |-> <<>>, got_priv_outfile |-> FALSE,
            pass_phrase |-> <<>>, got_pass_phrase |-> FALSE]
  /\ argc = 0
  /\ argv = <<>>
  /\ key_numbers = <<>>
  /\ now = 0
  /\ tmpl = [prefix |-> <<>>, suffix |-> <<>>, got_hash |-> FALSE]
  /\ ki = 1
  /\ pkey = 0
  /\ outfile = <<>>
  /\ registry = <<>>
  /\ disk = <<>>
  /\ log = <<>>
  /\ status = 0 - 1
  /\ err = NoError

Init ==
  /\ pc = "getopt"
  /\ MainInit
  /\ data = <<>>
  /\ emitted = NoOutput

\* exit(code) after writing message e to cerr.
Exit(code, e) ==
  /\ pc' = "exit"
  /\ status' = code
  /\ err' = e

(***************************************************************************)
(* PARSE_FLAGS: the getopt loop (lines 338-365), one option per step.      *)
(***************************************************************************)
GetoptA ==
  /\ pc = "getopt"
  /\ \E f \in PubArgs :
       opt' = [opt EXCEPT !.pub_outfile = f, !.got_pub_outfile = TRUE]
  /\ flag' = "a"
  /\ UNCHANGED <<pc, build, argc, argv, key_numbers, now, tmpl, ki, pkey,
                 outfile, registry, disk, log, status, err, data, emitted>>

GetoptB ==
  /\ pc = "getopt"
  /\ \E f \in PrivArgs :
       opt' = [opt EXCEPT !.priv_outfile = f, !.got_priv_outfile = TRUE]
  /\ flag' = "b"
  /\ UNCHANGED <<pc, build, argc, argv, key_numbers, now, tmpl, ki, pkey,
                 outfile, registry, disk, log, status, err, data, emitted>>

GetoptP ==
  /\ pc = "getopt"
  /\ \E f \in PhraseArgs :
       opt' = [opt EXCEPT !.pass_phrase = f, !.got_pass_phrase = TRUE]
  /\ flag' = "p"
  /\ UNCHANGED <<pc, build, argc, argv, key_numbers, now, tmpl, ki, pkey,
                 outfile, registry, disk, log, status, err, data, emitted>>

\* case 'h': usage(); exit(0).
GetoptH ==
  /\ pc = "getopt"
  /\ flag' = "h"
  /\ Exit(0, [kind |-> "usage", text |-> <<>>])
  /\ UNCHANGED <<build, opt, argc, argv, key_numbers, now, tmpl, ki, pkey,
                 outfile, registry, disk, log, data, emitted>>

\* default: an option getopt does not know, or one that lacks its argument
\* (getopt writes its own message): exit(1).
GetoptUnknown ==
  /\ pc = "getopt"
  /\ flag' = "?"
  /\ Exit(1, [kind |-> "getopt", text |-> <<>>])
  /\ UNCHANGED <<build, opt, argc, argv, key_numbers, now, tmpl, ki, pkey,
                 outfile, registry, disk, log, data, emitted>>

\* getopt returns EOF; lines 367-368 leave the positional arguments in
\* argv[1..argc-1].
GetoptEOF ==
  /\ pc = "getopt"
  /\ flag' = "EOF"
  /\ \E n \in 0..MaxArgs : argc' = n + 1
  /\ pc' = "check_argc"
  /\ UNCHANGED <<build, opt, argv, key_numbers, now, tmpl, ki, pkey,
                 outfile, registry, disk, log, status, err, data, emitted>>

\* CheckArgc with exit(0) after usage(), as in case 'h'.
CheckArgcExitZero ==
  /\ pc = "check_argc"
  /\ IF argc < 2
     THEN Exit(0, [kind |-> "usage", text |-> <<>>])
     ELSE pc' = "validate_pub" /\ UNCHANGED <<status, err>>
  /\ UNCHANGED <<build, flag, opt, argc, argv, key_numbers, now, tmpl,
                 ki, pkey, outfile, registry, disk, log, data, emitted>>

\* Lines 370-373.
CheckArgc ==
  /\ pc = "check_argc"
  /\ IF argc < 2
     THEN Exit(1, [kind |-> "usage", text |-> <<>>])
     ELSE pc' = "validate_pub" /\ UNCHANGED <<status, err>>
  /\ UNCHANGED <<build, flag, opt, argc, argv, key_numbers, now, tmpl,
                 ki, pkey, outfile, registry, disk, log, data, emitted>>


(***************************************************************************)
(* PrcKeyRegistry (dtool/src/prc/prcKeyRegistry.h): a vector of slots,     *)
(* slot i holding the key of trust level i.                                *)
(***************************************************************************)
\* record_keys(key_def, num_keys): the compiled-in table fills the slots.
record_keys(reg, key_def) ==
  [i \in 1..(IF Len(reg) > Len(key_def) THEN Len(reg) ELSE Len(key_def)) |->
     IF i <= Len(key_def) /\ key_def[i].pkey # 0 THEN key_def[i]
     ELSE IF i <= Len(reg) THEN reg[i]
     ELSE Absent]

\* set_key(n, pkey, generated_time): the vector grows to hold slot n, the
\* new slots absent, and slot n is replaced.
set_key(reg, n, key, generated_time) ==
  [i \in 1..(IF Len(reg) > n + 1 THEN Len(reg) ELSE n + 1) |->
     IF i = n + 1 THEN [pkey |-> key, generated_time |-> generated_time]
     ELSE IF i <= Len(reg) THEN reg[i]
     ELSE Absent]

get_num_keys(reg) == Len(reg)

\* get_key(i): the key of slot i, 0 (nullptr) for an absent slot.
get_key(reg, i) == reg[i + 1].pkey

get_generated_time(reg, i) == reg[i + 1].generated_time

(***************************************************************************)
(* VALIDATE_PATHS (lines 375-404).                                         *)
(***************************************************************************)
ValidatePub ==
  /\ pc = "validate_pub"
  /\ IF opt.got_pub_outfile
     THEN /\ IF get_extension(opt.pub_outfile) # cxx
             THEN Exit(1, [kind |-> "pub_extension", text |-> opt.pub_outfile])
             ELSE pc' = "validate_priv" /\ UNCHANGED <<status, err>>
          /\ UNCHANGED <<opt, registry>>
     ELSE IF build
     THEN /\ registry' = record_keys(registry, CompiledKeys)
          /\ opt' = [opt EXCEPT !.pub_outfile = CompiledFilename]
          /\ pc' = "validate_priv"
          /\ UNCHANGED <<status, err>>
     ELSE /\ Exit(1, [kind |-> "no_pub_outfile", text |-> <<>>])
          /\ UNCHANGED <<opt, registry>>
  /\ UNCHANGED <<build, flag, argc, argv, key_numbers, now, tmpl, ki,
                 pkey, outfile, disk, log, data, emitted>>

ValidatePriv ==
  /\ pc = "validate_priv"
  /\ IF opt.got_priv_outfile
     THEN IF get_extension(opt.priv_outfile) # cxx
          THEN Exit(1, [kind |-> "priv_extension",
                        text |-> opt.priv_outfile])
          ELSE pc' = "parse_keys" /\ UNCHANGED <<status, err>>
     ELSE Exit(1, [kind |-> "no_priv_outfile", text |-> <<>>])
  /\ UNCHANGED <<build, flag, opt, argc, argv, key_numbers, now, tmpl,
                 ki, pkey, outfile, registry, disk, log, data, emitted>>

(***************************************************************************)
(* PARSE_KEY_LIST (lines 406-428), one argument per step.                  *)
(***************************************************************************)
\* ParseArg with the test of line 422 written `< 0`: level 0 passes.
ParseArgZero(arg, got_pass_phrase, pass_phrase) ==
  LET r == Strtol(arg)
      comma == r.end <= Len(arg) /\ arg[r.end] = ","
      junk == r.end <= Len(arg) /\ arg[r.end] # ","
      key == [_number |-> r.number,
              _got_pass_phrase |-> IF comma THEN TRUE ELSE got_pass_phrase,
              _pass_phrase |-> IF comma THEN SubSeq(arg, r.end + 1, Len(arg))
                               ELSE pass_phrase]
  IN  IF junk
      THEN [pushed |-> FALSE, key |-> key,
            err |-> [kind |-> "not_integer", text |-> arg]]
      ELSE IF r.number < 0
      THEN [pushed |-> FALSE, key |-> key,
            err |-> [kind |-> "not_positive", text |-> FormatInt(r.number)]]
      ELSE [pushed |-> TRUE, key |-> key, err |-> NoError]

\* The body of the loop for argument arg: the KeyNumber it builds, whether
\* it is pushed onto key_numbers, and the message written when it is not.
ParseArg(arg, got_pass_phrase, pass_phrase) ==
  LET r == Strtol(arg)
      comma == r.end <= Len(arg) /\ arg[r.end] = ","
      junk == r.end <= Len(arg) /\ arg[r.end] # ","
      key == [_number |-> r.number,
              _got_pass_phrase |-> IF comma THEN TRUE ELSE got_pass_phrase,
              _pass_phrase |-> IF comma THEN SubSeq(arg, r.end + 1, Len(arg))
                               ELSE pass_phrase]
  IN  IF junk
      THEN [pushed |-> FALSE, key |-> key,
            err |-> [kind |-> "not_integer", text |-> arg]]
      ELSE IF r.number <= 0
      THEN [pushed |-> FALSE, key |-> key,
            err |-> [kind |-> "not_positive", text |-> FormatInt(r.number)]]
      ELSE [pushed |-> TRUE, key |-> key, err |-> NoError]

ParseKey ==
  /\ pc = "parse_keys"
  /\ Len(argv) + 1 < argc
  /\ \E arg \in Tokens :
       LET p == ParseArg(arg, opt.got_pass_phrase, opt.pass_phrase)
       IN  /\ argv' = Append(argv, arg)
           /\ IF p.pushed
              THEN /\ key_numbers' = Append(key_numbers, p.key)
                   /\ UNCHANGED <<pc, status, err>>
              ELSE /\ Exit(1, p.err)
                   /\ UNCHANGED key_numbers
  /\ UNCHANGED <<build, flag, opt, argc, now, tmpl, ki, pkey, outfile,
                 registry, disk, log, data, emitted>>

\* What lines 438-452 make of the private path: prefix, suffix, got_hash.
SplitName(priv_outfile) ==
  LET name == get_fullpath_wo_extension(priv_outfile)
      hash == Find(name, "#")
  IN  IF hash = 0
      THEN [prefix |-> name, suffix |-> <<".">> \o cxx, got_hash |-> FALSE]
      ELSE [prefix |-> SubSeq(name, 1, hash - 1),
            suffix |-> SubSeq(name, hash + 1, Len(name)) \o <<".">> \o cxx,
            got_hash |-> TRUE]

\* Prepare with the generate loop entered as soon as one argument has been
\* read: the arguments after it are validated, if at all, only later.
PrepareEarly ==
  /\ pc = "parse_keys"
  /\ Len(argv) >= 1
  /\ now' \in Times
  /\ tmpl' = SplitName(opt.priv_outfile)
  /\ ki' = 1
  /\ pc' = "loop"
  /\ UNCHANGED <<build, flag, opt, argc, argv, key_numbers, pkey,
                 outfile, registry, disk, log, status, err, data, emitted>>

\* The loop has read every argument: lines 430-452.
Prepare ==
  /\ pc = "parse_keys"
  /\ Len(argv) + 1 = argc
  /\ now' \in Times
  /\ tmpl' = SplitName(opt.priv_outfile)
  /\ ki' = 1
  /\ pc' = "loop"
  /\ UNCHANGED <<build, flag, opt, argc, argv, key_numbers, pkey,
                 outfile, registry, disk, log, status, err, data, emitted>>


(***************************************************************************)
(* The files.  A file's content is the list of what the emitter wrote,     *)
(* each serialized blob standing for one call of output_c_string.          *)
(***************************************************************************)
\* open_write(out) on path f: the file is created or truncated.
Opened(d, f, content) ==
  [g \in (DOMAIN d) \cup {f} |-> IF g = f THEN content ELSE d[g]]

\* PEM_write_bio_PKCS8PrivateKey(mbio, pkey, enc, nullptr, 0, nullptr, u):
\* without a cipher the key is written in the clear; with one it is
\* encrypted under the phrase u, and with no u the library's default
\* callback asks for the phrase.
PEM_write_bio_PKCS8PrivateKey(key, enc, has_u, u) ==
  IF enc = "none" THEN [pkey |-> key, form |-> "cleartext", phrase |-> <<>>]
  ELSE IF has_u THEN [pkey |-> key, form |-> "encrypted", phrase |-> u]
  ELSE [pkey |-> key, form |-> "prompted", phrase |-> <<>>]

\* PrivatePem with the test of line 229 written without `pp != nullptr`:
\* no phrase at all is taken for the empty phrase.
PrivatePemNullIsEmpty(key, has_pp, pp) ==
  IF pp = <<>>
  THEN PEM_write_bio_PKCS8PrivateKey(key, "none", FALSE, <<>>)
  ELSE PEM_write_bio_PKCS8PrivateKey(key, "des_ede3_cbc", has_pp, pp)

\* Lines 228-240: pp is nullptr when has_pp is FALSE.
PrivatePem(key, has_pp, pp) ==
  IF has_pp /\ pp = <<>>
  THEN PEM_write_bio_PKCS8PrivateKey(key, "none", FALSE, <<>>)
  ELSE PEM_write_bio_PKCS8PrivateKey(key, "des_ede3_cbc", has_pp, pp)

\* What write_private_key has written once the file is open (lines 221-224).
PrivateHeader(n) ==
  [kind |-> "private", complete |-> FALSE, KEY_NUMBER |-> n]

\* The whole private-key file (lines 221-259).
PrivateFile(key, f, n, t, has_pp, pp) ==
  [kind |-> "private", complete |-> TRUE, KEY_NUMBER |-> n,
   blob |-> [name |-> "prc_privkey", index |-> n,
             pem |-> PrivatePem(key, has_pp, pp)],
   PROGNAME |-> get_basename_wo_extension(f),
   GENERATED_TIME |-> t]

\* PrivatePath with the test of line 466 written `got_hash` alone: without
\* a hash mark no level gets its number.
PrivatePathNoNumber(t, n) ==
  IF t.got_hash
  THEN t.prefix \o FormatInt(n) \o t.suffix
  ELSE t.prefix \o t.suffix

\* PrivatePath with the test of line 466 left out: level 1 gets its number
\* too.
PrivatePathAlwaysNumber(t, n) ==
  t.prefix \o FormatInt(n) \o t.suffix

\* The private path of trust level n (lines 465-477).
PrivatePath(t, n) ==
  IF t.got_hash \/ n # 1
  THEN t.prefix \o FormatInt(n) \o t.suffix
  ELSE t.prefix \o t.suffix

\* The slots 0..num_keys-1 that hold a key, in order (the loop of lines
\* 169-182 serializes one blob for each).
Populated(reg) ==
  SelectSeq([i \in 1..get_num_keys(reg) |-> i - 1],
            LAMBDA i : get_key(reg, i) # 0)

PublicBlob(reg, i) ==
  [name |-> "prc_pubkey", index |-> i,
   pem |-> [pkey |-> get_key(reg, i), form |-> "pubkey"]]

\* The table row of slot i (lines 190-198).
NullRow == <<"nullptr", 0, 0>>
PublicRow(reg, i) ==
  IF get_key(reg, i) # 0
  THEN <<"prc_pubkey", i, get_generated_time(reg, i)>>
  ELSE NullRow

\* The public file when PEM_write_bio_PUBKEY failed on the blob after the
\* first `written` ones: the header and those blobs, no table.
PublicPartial(reg, written) ==
  [kind |-> "public", complete |-> FALSE,
   blobs |-> [j \in 1..written |-> PublicBlob(reg, Populated(reg)[j])]]

\* PublicFile with the table made of the populated slots alone: absent
\* slots get no row and the rows after them move up.
PublicFileCompact(reg) ==
  [kind |-> "public", complete |-> TRUE,
   blobs |-> [j \in 1..Len(Populated(reg)) |->
                PublicBlob(reg, Populated(reg)[j])],
   array_length |-> Len(Populated(reg)),
   rows |-> [j \in 1..Len(Populated(reg)) |->
               PublicRow(reg, Populated(reg)[j])],
   num_prc_pubkeys |-> Len(Populated(reg))]

\* The whole public file (lines 155-202).
PublicFile(reg) ==
  [kind |-> "public", complete |-> TRUE,
   blobs |-> [j \in 1..Len(Populated(reg)) |->
                PublicBlob(reg, Populated(reg)[j])],
   array_length |-> get_num_keys(reg),
   rows |-> [j \in 1..get_num_keys(reg) |-> PublicRow(reg, j - 1)],
   num_prc_pubkeys |-> get_num_keys(reg)]

(***************************************************************************)
(* GENERATE_LOOP (lines 454-480).                                          *)
(***************************************************************************)
\* Request with the loop running from the back of key_numbers.
RequestFromBack(kn, k) == kn[Len(kn) + 1 - k]

\* *ki: the request the iterator stands at.
Request(kn, k) == kn[k]

\* generate_key() (lines 115-137): a fresh key, or exit(1) when the library
\* fails.  The key made for request k is called k.
GenerateKey ==
  /\ pc = "loop"
  /\ ki <= Len(key_numbers)
  /\ \E ok \in BOOLEAN :
       IF ok
       THEN /\ pkey' = ki
            /\ log' = Append(log, [op |-> "generate_key", k |-> ki,
                                   n |-> Request(key_numbers, ki)._number,
                                   path |-> <<>>])
            /\ pc' = "set_key"
            /\ UNCHANGED <<status, err>>
       ELSE /\ Exit(1, [kind |-> "ssl", text |-> <<>>])
            /\ UNCHANGED <<pkey, log>>
  /\ UNCHANGED <<build, flag, opt, argc, argv, key_numbers, now, tmpl,
                 ki, outfile, registry, disk, data, emitted>>

\* SetKey with the clock read again for the registry: the time recorded
\* there is no longer the `now` of line 436 that the private file gets.
SetKeyOwnTime ==
  /\ pc = "set_key"
  /\ LET n == Request(key_numbers, ki)._number
     IN  /\ \E t \in Times : registry' = set_key(registry, n, pkey, t)
         /\ outfile' = PrivatePath(tmpl, n)
         /\ log' = Append(log, [op |-> "set_key", k |-> ki, n |-> n,
                                path |-> PrivatePath(tmpl, n)])
  /\ pc' = "open_private"
  /\ UNCHANGED <<build, flag, opt, argc, argv, key_numbers, now, tmpl,
                 ki, pkey, disk, status, err, data, emitted>>

\* Lines 463-477: the key is recorded and the private path made.
SetKey ==
  /\ pc = "set_key"
  /\ LET n == Request(key_numbers, ki)._number
     IN  /\ registry' = set_key(registry, n, pkey, now)
         /\ outfile' = PrivatePath(tmpl, n)
         /\ log' = Append(log, [op |-> "set_key", k |-> ki, n |-> n,
                                path |-> PrivatePath(tmpl, n)])
  /\ pc' = "open_private"
  /\ UNCHANGED <<build, flag, opt, argc, argv, key_numbers, now, tmpl,
                 ki, pkey, disk, status, err, data, emitted>>

\* write_private_key up to its first output (lines 212-224).
OpenPrivate ==
  /\ pc = "open_private"
  /\ \E ok \in BOOLEAN :
       IF ok
       THEN /\ disk' = Opened(disk, outfile,
                              PrivateHeader(Request(key_numbers, ki)._number))
            /\ log' = Append(log, [op |-> "open", k |-> ki,
                                   n |-> Request(key_numbers, ki)._number,
                                   path |-> outfile])
            /\ pc' = "write_private"
            /\ UNCHANGED <<status, err>>
       ELSE /\ Exit(1, [kind |-> "open", text |-> outfile])
            /\ UNCHANGED <<disk, log>>
  /\ UNCHANGED <<build, flag, opt, argc, argv, key_numbers, now, tmpl,
                 ki, pkey, outfile, registry, data, emitted>>

\* The rest of write_private_key (lines 226-259) and ++ki.
WritePrivate ==
  /\ pc = "write_private"
  /\ \E ok \in BOOLEAN :
       IF ok
       THEN /\ LET r == Request(key_numbers, ki)
               IN  disk' = Opened(disk, outfile,
                                  PrivateFile(pkey, outfile, r._number, now,
                                              r._got_pass_phrase,
                                              r._pass_phrase))
            /\ log' = Append(log, [op |-> "write", k |-> ki,
                                   n |-> Request(key_numbers, ki)._number,
                                   path |-> outfile])
            /\ ki' = ki + 1
            /\ pc' = "loop"
            /\ UNCHANGED <<status, err>>
       ELSE /\ Exit(1, [kind |-> "ssl", text |-> <<>>])
            /\ UNCHANGED <<disk, log, ki>>
  /\ UNCHANGED <<build, flag, opt, argc, argv, key_numbers, now, tmpl,
                 pkey, outfile, registry, data, emitted>>

(***************************************************************************)
(* FLUSH_PUBLIC_TABLE: write_public_keys (lines 144-203) and return 0.     *)
(***************************************************************************)
\* OpenPublic with write_public_keys called from inside the loop: the
\* table is written as soon as one request is done.
OpenPublicInLoop ==
  /\ pc = "loop"
  /\ ki > 1
  /\ \E ok \in BOOLEAN :
       IF ok
       THEN /\ disk' = Opened(disk, opt.pub_outfile, PublicPartial(registry, 0))
            /\ log' = Append(log, [op |-> "open", k |-> 0, n |-> 0,
                                   path |-> opt.pub_outfile])
            /\ outfile' = opt.pub_outfile
            /\ pc' = "write_public"
            /\ UNCHANGED <<status, err>>
       ELSE /\ Exit(1, [kind |-> "open", text |-> opt.pub_outfile])
            /\ UNCHANGED <<disk, log, outfile>>
  /\ UNCHANGED <<build, flag, opt, argc, argv, key_numbers, now, tmpl,
                 ki, pkey, registry, data, emitted>>

\* The loop is over; write_public_keys opens the public file (lines 146-161).
OpenPublic ==
  /\ pc = "loop"
  /\ ki > Len(key_numbers)
  /\ \E ok \in BOOLEAN :
       IF ok
       THEN /\ disk' = Opened(disk, opt.pub_outfile, PublicPartial(registry, 0))
            /\ log' = Append(log, [op |-> "open", k |-> 0, n |-> 0,
                                   path |-> opt.pub_outfile])
            /\ outfile' = opt.pub_outfile
            /\ pc' = "write_public"
            /\ UNCHANGED <<status, err>>
       ELSE /\ Exit(1, [kind |-> "open", text |-> opt.pub_outfile])
            /\ UNCHANGED <<disk, log, outfile>>
  /\ UNCHANGED <<build, flag, opt, argc, argv, key_numbers, now, tmpl,
                 ki, pkey, registry, data, emitted>>

\* The blobs and the table (lines 163-202), then main returns 0; or
\* PEM_write_bio_PUBKEY fails on one of the blobs and the run exits.
WritePublic ==
  /\ pc = "write_public"
  /\ \/ /\ disk' = Opened(disk, outfile, PublicFile(registry))
        /\ log' = Append(log, [op |-> "write", k |-> 0, n |-> 0,
                                   path |-> outfile])
        /\ pc' = "done"
        /\ status' = 0
        /\ UNCHANGED err
     \/ /\ \E written \in 0..(Len(Populated(registry)) - 1) :
             disk' = Opened(disk, outfile, PublicPartial(registry, written))
        /\ Exit(1, [kind |-> "ssl", text |-> <<>>])
        /\ UNCHANGED log
  /\ UNCHANGED <<build, flag, opt, argc, argv, key_numbers, now, tmpl,
                 ki, pkey, outfile, registry, data, emitted>>

Next ==
  \/ GetoptA \/ GetoptB \/ GetoptP \/ GetoptH \/ GetoptUnknown \/ GetoptEOF
  \/ CheckArgc \/ ValidatePub \/ ValidatePriv
  \/ ParseKey \/ Prepare
  \/ GenerateKey \/ SetKey \/ OpenPrivate \/ WritePrivate
  \/ OpenPublic \/ WritePublic

Spec == Init /\ [][Next]_vars


(***************************************************************************)
(* output_c_string on its own: a memory BIO holding any bytes.             *)
(***************************************************************************)
RECURSIVE SeqsUpTo(_, _)
SeqsUpTo(S, n) ==
  IF n = 0 THEN {<<>>}
  ELSE SeqsUpTo(S, n - 1) \cup [1..n -> S]

CStringInit ==
  /\ pc = "c_string"
  /\ MainInit
  /\ data \in SeqsUpTo(Bytes, MaxData)
  /\ emitted = NoOutput

\* One call of output_c_string on the BIO (lines 74-110).
OutputCString ==
  /\ pc = "c_string"
  /\ \E high \in [1..Len(data) -> BOOLEAN] :
       emitted' = output_c_string("prc_pubkey", 1, data, high)
  /\ pc' = "c_string_done"
  /\ UNCHANGED <<build, flag, opt, argc, argv, key_numbers, now, tmpl, ki,
                 pkey, outfile, registry, disk, log, status, err, data>>

CStringNext == OutputCString

SpecCString == CStringInit /\ [][CStringNext]_vars


(***************************************************************************)
(* The claims.                                                             *)
(***************************************************************************)

\* C1: for every byte sequence, reading the literal output_c_string emitted
\* back as a C compiler does yields the original bytes, and the _length
\* constant is the original byte count.
C1_RoundTrip ==
  pc = "c_string_done" =>
    /\ ReadLiteral(emitted.literal) = data
    /\ emitted.length = Len(data)


\* What strtol makes of argument a: its number, and whether the text after
\* the number is empty or starts with a comma.
NumberOf(a) == Strtol(a).number
CleanAfterNumber(a) ==
  Strtol(a).end > Len(a) \/ a[Strtol(a).end] = ","

\* Argument i was accepted: a KeyNumber stands for it in key_numbers.
Recorded(i) == i <= Len(key_numbers)

\* Argument i was rejected: the run ended there with status 1 and nothing
\* was pushed for it.
Rejected(i) ==
  /\ i = Len(argv)
  /\ Len(key_numbers) = i - 1
  /\ pc = "exit"
  /\ status = 1

\* The arguments of the model that denote a positive trust level.
PositiveTokens ==
  {<<"1">>, <<"1", ",">>, <<"2", ",", "s">>, <<"0", "x", "3">>}

\* Text a occurs in text t.
Contains(t, a) ==
  \E i \in 0..(Len(t) - Len(a)) : SubSeq(t, i + 1, i + Len(a)) = a

\* C2 as stated: an argument is accepted iff it denotes an integer n > 0
\* (with or without ,phrase); any other is rejected with status 1 and a
\* message in which the literal argument text occurs, and nothing is
\* recorded for it.
C2_LiteralTokenNamed ==
  \A i \in 1..Len(argv) :
    IF NumberOf(argv[i]) > 0 /\ CleanAfterNumber(argv[i])
    THEN Recorded(i)
    ELSE Rejected(i) /\ Contains(err.text, argv[i])

\* C2 amended: an argument is accepted iff strtol (base 0) reads a number
\* from it that is > 0 as an int and the text after the number is empty or
\* starts with a comma; any other is rejected with status 1 and nothing is
\* recorded for it.  The message names the literal argument when the text
\* after the number is not a comma, and otherwise names the number strtol
\* read, in decimal.
C2_TrustLevelValidation ==
  \A i \in 1..Len(argv) :
    /\ Recorded(i) <=> (argv[i] \in PositiveTokens)
    /\ IF NumberOf(argv[i]) > 0 /\ CleanAfterNumber(argv[i])
       THEN Recorded(i) /\ key_numbers[i]._number = NumberOf(argv[i])
       ELSE /\ Rejected(i)
            /\ IF CleanAfterNumber(argv[i])
               THEN /\ err.kind = "not_positive"
                    /\ err.text = FormatInt(NumberOf(argv[i]))
               ELSE /\ err.kind = "not_integer"
                    /\ err.text = argv[i]

\* An accepted argument is followed by 0,s, which is rejected with a
\* message that names 0.
C2_Witness ==
  /\ pc = "exit"
  /\ argv = <<<<"0", "x", "3">>, <<"0", ",", "s">>>>
  /\ Len(key_numbers) = 1
  /\ key_numbers[1]._number = 3
  /\ err = [kind |-> "not_positive", text |-> <<"0">>]


\* The pass phrase in effect for argument a: the text after its comma if
\* it has one, else the -p phrase if -p was given, else none.
EffectivePhrase(a) ==
  IF Find(a, ",") # 0
  THEN [supplied |-> TRUE, phrase |-> SubSeq(a, Find(a, ",") + 1, Len(a))]
  ELSE IF opt.got_pass_phrase
  THEN [supplied |-> TRUE, phrase |-> opt.pass_phrase]
  ELSE [supplied |-> FALSE, phrase |-> <<>>]

\* The form write_private_key is to give the key under phrase e.
ExpectedPem(key, e) ==
  IF e.supplied /\ e.phrase = <<>>
  THEN [pkey |-> key, form |-> "cleartext", phrase |-> <<>>]
  ELSE IF e.supplied
  THEN [pkey |-> key, form |-> "encrypted", phrase |-> e.phrase]
  ELSE [pkey |-> key, form |-> "prompted", phrase |-> <<>>]

\* C3: every request carries the phrase in effect for its own argument
\* (inline, else -p, else none), whatever the other arguments say; and the
\* file just written for a request holds the key in the clear iff that
\* phrase is supplied and empty, encrypted under the phrase if it is
\* supplied and not empty, and in the library's prompted form if none is.
C3_PassPhrase ==
  /\ \A i \in 1..Len(key_numbers) :
       /\ key_numbers[i]._got_pass_phrase = EffectivePhrase(argv[i]).supplied
       /\ EffectivePhrase(argv[i]).supplied =>
            key_numbers[i]._pass_phrase = EffectivePhrase(argv[i]).phrase
  /\ (pc = "loop" /\ ki > 1) =>
       /\ disk[outfile].kind = "private"
       /\ disk[outfile].complete
       /\ disk[outfile].blob.pem =
            ExpectedPem(ki - 1, EffectivePhrase(argv[ki - 1]))
       /\ (disk[outfile].blob.pem.form = "cleartext") <=>
            (/\ EffectivePhrase(argv[ki - 1]).supplied
             /\ EffectivePhrase(argv[ki - 1]).phrase = <<>>)

\* With -p s given, the requests 1 (the -p phrase), 1, (the empty inline
\* phrase) and 2,s have been written; the last file is encrypted under s.
C3_Witness ==
  /\ pc = "loop" /\ ki = 4
  /\ opt.got_pass_phrase /\ opt.pass_phrase = <<"s">>
  /\ argv = <<<<"1", ",">>, <<"1">>, <<"2", ",", "s">>>>
  /\ key_numbers[1]._pass_phrase = <<>>
  /\ key_numbers[2]._pass_phrase = <<"s">>
  /\ disk[outfile].blob.pem.form = "encrypted"


\* The path C4 describes for template f and level n (n < 10): the hash
\* mark replaced by n; or, with no hash mark, f itself for level 1 and n
\* put before the .cxx of f for any other level.
DescribedPath(f, n) ==
  LET h == Find(f, "#")
      stem == SubSeq(f, 1, Len(f) - 4)
  IN  IF h # 0
      THEN SubSeq(f, 1, h - 1) \o <<Digits[n + 1]>> \o SubSeq(f, h + 1, Len(f))
      ELSE IF n = 1 THEN f
      ELSE stem \o <<Digits[n + 1]>> \o <<".", "c", "x", "x">>

\* C4: the private path made for a request is the template with the hash
\* mark replaced by the decimal level; without a hash mark it is the
\* template itself for level 1 and the stem, the level, .cxx for any other
\* level (key#.cxx, 3 -> key3.cxx; key.cxx, 1 -> key.cxx; key.cxx, 2 ->
\* key2.cxx).
C4_FilenameSubstitution ==
  /\ \A i \in 1..Len(log) :
       log[i].op = "set_key" =>
         log[i].path = DescribedPath(opt.priv_outfile, log[i].n)
  /\ pc = "open_private" =>
       outfile = DescribedPath(opt.priv_outfile, key_numbers[ki]._number)
  /\ PrivatePath(SplitName(<<"k", "#", ".", "c", "x", "x">>), 3)
       = <<"k", "3", ".", "c", "x", "x">>
  /\ PrivatePath(SplitName(<<"k", ".", "c", "x", "x">>), 1)
       = <<"k", ".", "c", "x", "x">>
  /\ PrivatePath(SplitName(<<"k", ".", "c", "x", "x">>), 2)
       = <<"k", "2", ".", "c", "x", "x">>

\* Under the template k.cxx the paths of levels 1 and 2 have been made:
\* k.cxx and k2.cxx.
C4_Witness ==
  /\ pc = "open_private"
  /\ opt.priv_outfile = <<"k", ".", "c", "x", "x">>
  /\ \E i \in 1..Len(log) :
       /\ log[i].op = "set_key" /\ log[i].n = 1
       /\ log[i].path = <<"k", ".", "c", "x", "x">>
  /\ key_numbers[ki]._number = 2
  /\ outfile = <<"k", "2", ".", "c", "x", "x">>


\* Blob prc_pubkey<i> is declared in file f, holding key `key`.
Declares(f, i, key) ==
  \E j \in 1..Len(f.blobs) :
    /\ f.blobs[j].name = "prc_pubkey"
    /\ f.blobs[j].index = i
    /\ f.blobs[j].pem = [pkey |-> key, form |-> "pubkey"]

\* C5: the table write_public_keys emits has the registry's key count N as
\* its declared length, its number of rows and its num_prc_pubkeys; row i
\* is {prc_pubkey<i>_data, prc_pubkey<i>_length, generated_time} exactly
\* when slot i holds a key, and then blob prc_pubkey<i> is declared in the
\* file; it is {nullptr, 0, 0} exactly when slot i is absent, and then no
\* blob is declared for it.
C5_TableAlignment ==
  pc = "done" =>
    LET f == disk[opt.pub_outfile]
        N == Len(registry)
    IN  /\ f.kind = "public" /\ f.complete
        /\ f.array_length = N
        /\ Len(f.rows) = N
        /\ f.num_prc_pubkeys = N
        /\ \A i \in 0..(N - 1) :
             /\ (registry[i + 1].pkey # 0) <=>
                  (f.rows[i + 1] =
                     <<"prc_pubkey", i, registry[i + 1].generated_time>>)
             /\ (registry[i + 1].pkey = 0) <=>
                  (f.rows[i + 1] = <<"nullptr", 0, 0>>)
             /\ (registry[i + 1].pkey # 0) <=>
                  Declares(f, i, registry[i + 1].pkey)
        /\ \A j \in 1..Len(f.blobs) :
             /\ f.blobs[j].index < N
             /\ registry[f.blobs[j].index + 1].pkey # 0

\* Levels 1 and 3 alone were generated into an empty registry: the table
\* has its row 2 null between the rows of levels 1 and 3.
C5_Witness ==
  /\ pc = "done"
  /\ ~build
  /\ Len(registry) = 4
  /\ registry[2].pkey # 0 /\ registry[3].pkey = 0 /\ registry[4].pkey # 0
  /\ disk[opt.pub_outfile].rows[3] = <<"nullptr", 0, 0>>
  /\ disk[opt.pub_outfile].rows[4][1] = "prc_pubkey"
  /\ disk[opt.pub_outfile].rows[4][2] = 3


\* The step of a request a log entry stands for: 1 generate, 2 record,
\* 3 open the private file, 4 write it.
StepOf(e) ==
  CASE e.op = "generate_key" -> 1
    [] e.op = "set_key" -> 2
    [] e.op = "open" -> 3
    [] e.op = "write" -> 4

\* The log entries of the requests (those of the public table left out).
RequestLog == SelectSeq(log, LAMBDA e : e.k # 0)

\* Request j has been through its step s.
Did(j, s) ==
  \E i \in 1..Len(RequestLog) :
    RequestLog[i].k = j /\ StepOf(RequestLog[i]) = s

\* The run ended in a fatal error while request ki was being processed.
FatalInRequest ==
  /\ pc = "exit"
  /\ err.kind \in {"ssl", "open"}
  /\ ki <= Len(key_numbers)

\* C6: the requests are processed in argument order, each one generated,
\* recorded and written before anything is done for the next; when a fatal
\* error ends the run in request k, the files of the requests before k are
\* on disk (whole, unless a later request up to k reopened the same path)
\* and nothing was done for a request after k.
C6_ArgumentOrder ==
  /\ \A i \in 1..Len(RequestLog) :
       LET e == RequestLog[i]
       IN  \* request k is the k-th argument
           /\ e.k \in 1..Len(argv)
           /\ e.n = NumberOf(argv[e.k])
           \* the log runs 1.1 1.2 1.3 1.4 2.1 2.2 ...
           /\ i = 1 => (e.k = 1 /\ StepOf(e) = 1)
           /\ i > 1 =>
                LET d == RequestLog[i - 1]
                IN  IF StepOf(d) = 4
                    THEN e.k = d.k + 1 /\ StepOf(e) = 1
                    ELSE e.k = d.k /\ StepOf(e) = StepOf(d) + 1
  /\ FatalInRequest =>
       /\ \A j \in 1..(ki - 1) :
            /\ Did(j, 4)
            /\ PrivatePath(tmpl, key_numbers[j]._number) \in DOMAIN disk
            /\ (\A m \in (j + 1)..ki :
                  ~(Did(m, 3) /\ key_numbers[m]._number
                                   = key_numbers[j]._number)) =>
                 disk[PrivatePath(tmpl, key_numbers[j]._number)] =
                   PrivateFile(j, PrivatePath(tmpl, key_numbers[j]._number),
                               key_numbers[j]._number, now,
                               key_numbers[j]._got_pass_phrase,
                               key_numbers[j]._pass_phrase)
       /\ \A j \in (ki + 1)..Len(key_numbers) :
            \A s \in 1..4 : ~Did(j, s)
       /\ \A f \in DOMAIN disk :
            \E j \in 1..ki :
              Did(j, 3) /\ f = PrivatePath(tmpl, key_numbers[j]._number)

\* Of the requests 0x3 1 2,s the first two are written, in that order, and
\* a fatal error ends the run in the second of three steps left to the
\* third: its file was opened and the key could not be written.
C6_Witness ==
  /\ FatalInRequest
  /\ ki = 3
  /\ argv = <<<<"0", "x", "3">>, <<"1">>, <<"2", ",", "s">>>>
  /\ Did(1, 4) /\ Did(2, 4) /\ Did(3, 3) /\ ~Did(3, 4)
  /\ Cardinality(DOMAIN disk) = 3


\* The places in the log where the public table file is opened.
PublicOpens == {i \in 1..Len(log) : log[i].k = 0 /\ log[i].op = "open"}
PublicWrites == {i \in 1..Len(log) : log[i].k = 0 /\ log[i].op = "write"}

\* Every argument has become a request and every request's private file
\* has been written.
AllWritten ==
  /\ argc >= 2
  /\ Len(key_numbers) = argc - 1
  /\ \A j \in 1..Len(key_numbers) : Did(j, 4)

\* C7: the public table file is opened and written at most once; only
\* after every argument has become a request and every request has been
\* generated, recorded and written; nothing is generated or written after
\* it; and a run that a fatal condition ends before that point leaves no
\* public table on disk, whole or in part.
C7_PublicTableOnce ==
  /\ Cardinality(PublicOpens) <= 1
  /\ Cardinality(PublicWrites) <= 1
  /\ \A i \in PublicOpens \cup PublicWrites :
       /\ Len(key_numbers) = argc - 1
       /\ \A j \in 1..Len(key_numbers) :
            \E h \in 1..(i - 1) :
              log[h].k = j /\ log[h].op = "write"
       /\ \A h \in (i + 1)..Len(log) : log[h].k = 0
  /\ \A i \in PublicWrites : \E h \in PublicOpens : h < i
  /\ PublicOpens = {} =>
       \A f \in DOMAIN disk : disk[f].kind # "public"
  /\ (pc = "exit" /\ ~AllWritten) => PublicOpens = {}
  /\ pc = "done" => PublicWrites # {}

\* Two requests are written and then the public table, the last entry of
\* the log.
C7_Witness ==
  /\ pc = "done"
  /\ Len(key_numbers) = 2
  /\ Cardinality(PublicOpens) = 1
  /\ log[Len(log)].k = 0 /\ log[Len(log)].op = "write"
  /\ disk[opt.pub_outfile].kind = "public"


\* The run is over: main returned or exit was called.
Terminated == pc \in {"done", "exit"}

\* The run ended in full success: every request generated and written, and
\* the public table written.
FullSuccess ==
  /\ pc = "done"
  /\ AllWritten
  /\ \A j \in 1..Len(key_numbers) : Did(j, 1) /\ Did(j, 2)
  /\ PublicWrites # {}
  /\ disk[opt.pub_outfile].kind = "public"
  /\ disk[opt.pub_outfile].complete

\* The run ended at a request for help: getopt's last answer was 'h'.
HelpRequested == pc = "exit" /\ flag = "h"

\* C8: a run that is over has status 0 or 1, and 0 exactly when it ended in
\* full success or at a request for help; a run that is not over has no
\* status and can take a step.
C8_ExitStatus ==
  /\ Terminated =>
       /\ status \in {0, 1}
       /\ (status = 0) <=> (FullSuccess \/ HelpRequested)
  /\ ~Terminated => (status = 0 - 1 /\ ENABLED Next)
  /\ (pc = "exit" /\ err.kind \in {"getopt", "pub_extension",
                                  "no_pub_outfile", "priv_extension",
                                  "no_priv_outfile", "not_integer",
                                  "not_positive", "open", "ssl"}) =>
       status = 1
  /\ (pc = "exit" /\ err.kind = "usage" /\ flag # "h") => status = 1

\* A run ended with status 1 because a private file could not be opened,
\* after a first request was written.
C8_Witness ==
  /\ pc = "exit"
  /\ status = 1
  /\ err.kind = "open"
  /\ Did(1, 4)
  /\ ~FullSuccess


\* The run ended in a usage error.
UsageError ==
  /\ pc = "exit"
  /\ \/ err.kind \in {"getopt", "pub_extension", "no_pub_outfile",
                      "priv_extension", "no_priv_outfile", "not_integer",
                      "not_positive"}
     \/ err.kind = "usage" /\ flag # "h"

\* The whole command line has been validated: the options are read, both
\* paths end in .cxx, and every positional argument is a request.
Validated ==
  /\ flag = "EOF"
  /\ argc >= 2
  /\ get_extension(opt.pub_outfile) = cxx \/ ~opt.got_pub_outfile
  /\ opt.pub_outfile # <<>>
  /\ opt.got_priv_outfile
  /\ get_extension(opt.priv_outfile) = cxx
  /\ Len(argv) = argc - 1
  /\ Len(key_numbers) = Len(argv)
  /\ \A i \in 1..Len(argv) : argv[i] \in PositiveTokens

\* C9: a run that ends in a usage error has generated no key and has
\* opened or written no file; a key is generated and a file opened only
\* once the whole command line has been validated.
C9_ValidateBeforeGenerate ==
  /\ UsageError => (log = <<>> /\ disk = <<>> /\ pkey = 0)
  /\ (log # <<>> \/ disk # <<>> \/ pkey # 0) => Validated

\* The third of three arguments is rejected; the two before it were
\* accepted and nothing has been generated or written for them.
C9_Witness ==
  /\ UsageError
  /\ err.kind = "not_integer"
  /\ Len(argv) = 3
  /\ Len(key_numbers) = 2
  /\ log = <<>> /\ disk = <<>>


\* The last request for level n whose private file was opened, 0 if none.
LastOpened(n) ==
  LET S == {j \in 1..Len(key_numbers) :
              key_numbers[j]._number = n /\ Did(j, 3)}
  IN  IF S = {} THEN 0 ELSE CHOOSE j \in S : \A m \in S : m <= j

\* The levels for which a private file was written in this run.
WrittenLevels ==
  {key_numbers[j]._number : j \in {m \in 1..Len(key_numbers) : Did(m, 4)}}

\* The file on disk for level n holds the private half of the key the
\* registry holds for level n.
HoldsRegisteredKey(n) ==
  LET f == PrivatePath(tmpl, n)
  IN  /\ f \in DOMAIN disk
      /\ disk[f].kind = "private"
      /\ disk[f].complete
      /\ disk[f].KEY_NUMBER = n
      /\ disk[f].blob.pem.pkey = registry[n + 1].pkey

\* Under the template the run has validated, different levels have
\* different private paths (looked at once, before the first argument is
\* read).
DistinctPaths ==
  (pc = "parse_keys" /\ argv = <<>>) =>
    \A n1, n2 \in 1..MaxLevel :
      n1 # n2 => PrivatePath(SplitName(opt.priv_outfile), n1)
                   # PrivatePath(SplitName(opt.priv_outfile), n2)

\* C10 as stated: different levels never share a private path, so the file
\* on disk for a level is overwritten only by a later request for that
\* level and holds the private half of the key the registry holds for it.
C10_FileHoldsRegisteredKey ==
  /\ DistinctPaths
  /\ Terminated => \A n \in WrittenLevels : HoldsRegisteredKey(n)

\* No request is in progress: the loop stands between two requests.
BetweenRequests == pc = "loop"

\* C10 amended: different levels never share a private path.  The file of
\* a level is changed only by a request for that level, or by the public
\* table when the public path is that private path.  Between requests and
\* at the end of the loop, and at the end of a run whose public path is no
\* private path of a written level, the file on disk for a written level
\* holds the private half of the key the registry holds for that level.
C10_PrivatePaths ==
  /\ DistinctPaths
  /\ \A n \in WrittenLevels :
       LET f == PrivatePath(tmpl, n)
       IN  /\ f \in DOMAIN disk
           /\ \/ /\ disk[f].kind = "private"
                 /\ disk[f].KEY_NUMBER = n
                 /\ disk[f].complete =>
                      disk[f].blob.pem.pkey = LastOpened(n)
              \/ /\ disk[f].kind = "public"
                 /\ f = opt.pub_outfile
                 /\ PublicOpens # {}
  /\ BetweenRequests => \A n \in WrittenLevels : HoldsRegisteredKey(n)
  /\ (Terminated /\ AllWritten) =>
       \A n \in WrittenLevels :
         PrivatePath(tmpl, n) # opt.pub_outfile => HoldsRegisteredKey(n)

\* Level 1 was requested twice and level 2 once; the run is over, and the
\* file of level 1 holds the key of the second request for it.
C10_Witness ==
  /\ pc = "done"
  /\ Len(key_numbers) = 3
  /\ key_numbers[1]._number = 1
  /\ key_numbers[2]._number = 2
  /\ key_numbers[3]._number = 1
  /\ PrivatePath(tmpl, 1) # opt.pub_outfile
  /\ disk[PrivatePath(tmpl, 1)].blob.pem.pkey = 3
  /\ registry[2].pkey = 3
  /\ disk[PrivatePath(tmpl, 2)].blob.pem.pkey = 2

\* The levels whose key this run has recorded in the registry.
RecordedLevels ==
  {key_numbers[j]._number : j \in {m \in 1..Len(key_numbers) : Did(m, 2)}}

\* The complete private-key files and the complete public tables on disk.
PrivateFiles ==
  {f \in DOMAIN disk : disk[f].kind = "private" /\ disk[f].complete}

PublicTables ==
  {f \in DOMAIN disk : disk[f].kind = "public" /\ disk[f].complete}

\* What the run holds about timestamps at any moment: every key it has
\* recorded carries `now`, every private file it has written defines
\* GENERATED_TIME as `now`, which is the time the registry holds for the
\* file's level, the public table's row of a recorded level carries the
\* same time, and over the requests recorded so far the times do not
\* decrease in argument order.
SameTimestamp ==
  /\ RecordedLevels # {} => now \in Times
  /\ \A n \in RecordedLevels : get_generated_time(registry, n) = now
  /\ \A f \in PrivateFiles :
       /\ disk[f].GENERATED_TIME = now
       /\ disk[f].KEY_NUMBER \in RecordedLevels
       /\ disk[f].GENERATED_TIME
            = get_generated_time(registry, disk[f].KEY_NUMBER)
  /\ \A f \in PublicTables : \A n \in RecordedLevels :
       disk[f].rows[n + 1] = <<"prc_pubkey", n, now>>
  /\ \A j1, j2 \in 1..Len(key_numbers) :
       (j1 < j2 /\ Did(j2, 2)) =>
         get_generated_time(registry, key_numbers[j1]._number)
           <= get_generated_time(registry, key_numbers[j2]._number)

\* `now` is assigned in one step only, the one that enters the generate
\* loop, before any key has been generated.
TakenOnce ==
  now' # now => /\ pc = "parse_keys"
                /\ pc' = "loop"
                /\ log = <<>>
                /\ now' \in Times

\* C11: the timestamp is taken once per run, before the generate loop;
\* every key generated in the run is recorded with it, the GENERATED_TIME
\* of each level's private file equals the time the registry holds and the
\* public table emits for that level, and the times of the keys of one run
\* are equal and do not decrease in argument order.
C11_OneTimestamp == [](SameTimestamp) /\ [][TakenOnce]_vars

\* A build with compiled-in keys generated levels 1 and 2 at time 8: the
\* compiled-in key of slot 2, of time 5, was replaced, and both private
\* files and both rows of the public table carry 8.
C11_Witness ==
  /\ pc = "done"
  /\ now = 8
  /\ Len(key_numbers) = 2
  /\ key_numbers[1]._number = 1
  /\ key_numbers[2]._number = 2
  /\ ~opt.got_pub_outfile
  /\ CompiledKeys[3].generated_time = 5
  /\ get_generated_time(registry, 2) = 8
  /\ PrivatePath(tmpl, 1) \in PrivateFiles
  /\ PrivatePath(tmpl, 2) \in PrivateFiles
  /\ disk[PrivatePath(tmpl, 1)].GENERATED_TIME = 8
  /\ disk[PrivatePath(tmpl, 2)].GENERATED_TIME = 8
  /\ opt.pub_outfile \in PublicTables
  /\ disk[opt.pub_outfile].rows[2][3] = 8
  /\ disk[opt.pub_outfile].rows[3][3] = 8


=============================================================================
